---------------------------- MODULE Spec2Model ----------------------------
(***************************************************************************)
(* Model of spectator.go: the Spectator of a sharded key-value cluster     *)
(* controller.  A Spectator holds a seed list and a published topology     *)
(* snapshot behind one sync.RWMutex.  Run drives BuildClusterTopo from a   *)
(* one-second ticker; MaxReploffSlibing and FetchReplOffsetInReplicaSet    *)
(* are the read queries.                                                   *)
(*                                                                         *)
(* Text is modelled as sequences of one-character strings, so that         *)
(* strings.Split, strings.HasPrefix, strconv.Atoi and sort.Strings are     *)
(* computed and not assumed.  A status line is the sequence of its         *)
(* space-separated fields (the result of strings.Split(line, " ")); the    *)
(* blank line is the empty sequence.                                       *)
(*                                                                         *)
(* The package topo (Node, Cluster, ReplicaSet) and the package redis are  *)
(* not part of spectator.go.  topo is modelled from the specification's    *)
(* data model and collaborator contract; redis is the environment.         *)
(***************************************************************************)
EXTENDS Integers, Sequences, FiniteSets, TLC

\* ------------------------------------------------------------------ bounds

\* Longest seed list handed to NewSpectator.
MaxSeeds == 2

\* Largest replication offset a node reports.
MaxOffset == 1

\* Largest replica set handed to FetchReplOffsetInReplicaSet on its own.
MaxMembers == 3

\* Longest seed list of the passes followed call by call.
MaxLive == 3

\* Most slot tokens on a status line handed to buildNode on its own.
MaxTokens == 2

\* ------------------------------------------------------- program constants

\* fetchReplOffset's "unknown" value, and MaxReploffSlibing's initial maxVal.
Sentinel == -1

\* Buffer of the channel of time.NewTicker.
TickCap == 1

\* Index (0-based, as in the source) of the first slot token of a status line.
SlotField == 10

\* Number of colon-separated parts a tag must have.
TagParts == 3

\* ------------------------------------------------------------------- text

Digits == <<"0", "1", "2", "3", "4", "5", "6", "7", "8", "9">>

\* Byte value of the characters that occur in slot tokens.
CharRank(c) ==
    CASE c = "-" -> 45
      [] c = "0" -> 48 [] c = "1" -> 49 [] c = "2" -> 50 [] c = "3" -> 51
      [] c = "4" -> 52 [] c = "5" -> 53 [] c = "6" -> 54 [] c = "7" -> 55
      [] c = "8" -> 56 [] c = "9" -> 57
      [] c = ":" -> 58
      [] c = "[" -> 91
      [] OTHER -> 97

\* a < b as Go compares strings: bytewise, a proper prefix first.
RECURSIVE StrLess(_, _)
StrLess(a, b) ==
    IF b = <<>> THEN FALSE
    ELSE IF a = <<>> THEN TRUE
    ELSE IF CharRank(Head(a)) # CharRank(Head(b))
         THEN CharRank(Head(a)) < CharRank(Head(b))
    ELSE StrLess(Tail(a), Tail(b))

\* sort.Strings: ascending by StrLess.
RECURSIVE Insert(_, _)
Insert(w, sorted) ==
    IF sorted = <<>> THEN <<w>>
    ELSE IF StrLess(w, Head(sorted)) THEN <<w>> \o sorted
    ELSE <<Head(sorted)>> \o Insert(w, Tail(sorted))

RECURSIVE SortStrings(_)
SortStrings(ws) ==
    IF ws = <<>> THEN <<>> ELSE Insert(Head(ws), SortStrings(Tail(ws)))

\* strings.Split(s, sep) for a one-character sep: always at least one part.
RECURSIVE Split(_, _)
Split(s, sep) ==
    IF s = <<>> THEN << <<>> >>
    ELSE LET rest == Split(Tail(s), sep)
         IN  IF Head(s) = sep
             THEN << <<>> >> \o rest
             ELSE << <<Head(s)>> \o Head(rest) >> \o Tail(rest)

HasPrefix(s, c) == Len(s) > 0 /\ s[1] = c

DigitVal(c) == CHOOSE d \in 0..9 : Digits[d + 1] = c

IsDigit(c) == \E d \in 0..9 : Digits[d + 1] = c

RECURSIVE DigitsVal(_, _)
DigitsVal(s, acc) ==
    IF s = <<>> THEN acc ELSE DigitsVal(Tail(s), 10 * acc + DigitVal(Head(s)))

\* strconv.Atoi with the error dropped (left, _ := ...): 0 on a parse error.
Atoi(s) ==
    IF s # <<>> /\ \A i \in 1..Len(s) : IsDigit(s[i]) THEN DigitsVal(s, 0)
    ELSE IF Len(s) > 1 /\ s[1] = "-" /\ \A i \in 2..Len(s) : IsDigit(s[i])
         THEN 0 - DigitsVal(Tail(s), 0)
    ELSE 0


\* ------------------------------------------------------------ package topo
\* Node, Cluster and ReplicaSet as the specification's data model and
\* collaborator contract describe them.  A node is a record; the cluster
\* keeps its nodes in insertion order and finds a node by id.

NewNodeFromString(addr) ==
    [id |-> "", addr |-> addr, parent |-> "", tag |-> <<>>,
     region |-> <<>>, zone |-> <<>>, room |-> <<>>,
     readable |-> FALSE, writable |-> FALSE, role |-> "",
     ranges |-> <<>>, migrating |-> FALSE,
     pfail |-> FALSE, pfailCount |-> 0, fail |-> FALSE]

IsMaster(node) == node.role = "master"

\* Field equality on the authoritative fields: ranges, tag, role and mode.
\* The health fields (pfail, pfailCount, fail) are not compared.
Compare(a, b) ==
    /\ a.ranges = b.ranges
    /\ a.tag = b.tag
    /\ a.role = b.role
    /\ a.readable = b.readable
    /\ a.writable = b.writable

\* The region the Spectator is scoped to: "bj".
LocalRegion == <<"b", "j">>

NilCluster == [nil |-> TRUE]

NewCluster(region) ==
    [nil |-> FALSE, localRegion |-> region, nodes |-> <<>>, replicaSets |-> <<>>]

AddNode(cluster, node) == [cluster EXCEPT !.nodes = Append(@, node)]

\* Position of the node FindNode(id) returns, 0 for none.  A later node with
\* the same id replaces an earlier one in the id table.
FindIndex(cluster, id) ==
    LET hits == {i \in 1..Len(cluster.nodes) : cluster.nodes[i].id = id}
    IN  IF hits = {} THEN 0 ELSE CHOOSE i \in hits : \A j \in hits : j <= i

InLocalRegion(cluster, node) == node.region = cluster.localRegion

LocalRegionNodes(cluster) ==
    SelectSeq(cluster.nodes, LAMBDA n : InLocalRegion(cluster, n))

NumLocalRegionNode(cluster) == Len(LocalRegionNodes(cluster))

\* One replica set per master, in node order: the master and the slaves whose
\* parent id is the master's id.
ReplicaSetsOf(nodes) ==
    LET masters == SelectSeq(nodes, IsMaster)
    IN  [k \in 1..Len(masters) |->
            [master |-> masters[k],
             slaves |-> SelectSeq(nodes,
                 LAMBDA n : ~IsMaster(n) /\ n.parent = masters[k].id)]]

BuildReplicaSets(cluster) ==
    [cluster EXCEPT !.replicaSets = ReplicaSetsOf(cluster.nodes)]

AllNodes(rs) == <<rs.master>> \o rs.slaves

MemberIds(rs) == {AllNodes(rs)[i].id : i \in 1..Len(AllNodes(rs))}

\* Position of the replica set that has a member with this id, 0 for none.
FindReplicaSetByNode(cluster, id) ==
    LET hits == {k \in 1..Len(cluster.replicaSets) :
                    id \in MemberIds(cluster.replicaSets[k])}
    IN  IF hits = {} THEN 0 ELSE CHOOSE k \in hits : \A j \in hits : k <= j

\* ------------------------------------------------------- status-line parser

\* strings.Contains(flags, w): the flag field is modelled as the set of its
\* comma-separated words, none of which contains another.
Contains(flags, w) == w \in flags

\* The dash-separated range tokens, in the order given, as [left, right].
RECURSIVE RangesOf(_)
RangesOf(tokens) ==
    IF tokens = <<>> THEN <<>>
    ELSE LET xs == Split(Head(tokens), "-")
         IN  (IF Len(xs) = 2 THEN << <<Atoi(xs[1]), Atoi(xs[2])>> >> ELSE <<>>)
             \o RangesOf(Tail(tokens))

\* buildNode(line): [err, node].  err is "" (nil), "ErrInvalidTag", or
\* "panic" where the Go code indexes past the end of a slice or string.
buildNode(line) ==
    IF Len(line) < SlotField
    THEN [err |-> "panic", node |-> NewNodeFromString("")]
    ELSE
    LET mod    == line[1]
        tag    == line[2]
        id     == line[3]
        addr   == line[4]
        flags  == line[5]
        parent == line[6]
        words  == SubSeq(line, SlotField + 1, Len(line))
        ranges == SortStrings(SelectSeq(words, LAMBDA w : ~HasPrefix(w, "[")))
        pfail  == Contains(flags, "fail?")
        xs     == Split(tag, ":")
        node   == [NewNodeFromString(addr) EXCEPT
                      !.migrating  = \E i \in 1..Len(words) : HasPrefix(words[i], "["),
                      !.ranges     = RangesOf(ranges),
                      !.id         = id,
                      !.parent     = parent,
                      !.tag        = tag,
                      !.readable   = (mod[1] = "r"),
                      !.writable   = (mod[2] = "w"),
                      !.role       = IF Contains(flags, "master")
                                     THEN "master" ELSE "slave",
                      !.pfail      = pfail,
                      !.pfailCount = IF pfail THEN 1 ELSE 0]
    IN  IF Len(mod) < 2 THEN [err |-> "panic", node |-> NewNodeFromString("")]
        ELSE IF Len(xs) # TagParts
             THEN [err |-> "ErrInvalidTag", node |-> NewNodeFromString("")]
        ELSE [err |-> "",
              node |-> [node EXCEPT !.region = xs[1], !.zone = xs[2], !.room = xs[3]]]

\* ------------------------------------------------- what the seeds reply
\* redis.ClusterNodes is the environment.  A reply is [err, lines]: err is
\* TRUE for a transport error; lines are the lines of the text, each already
\* split into its fields.

ModRW  == <<"r", "w">>
TagBJ  == <<"b", "j", ":", "z", ":", "r">>
TagSH  == <<"s", "h", ":", "z", ":", "r">>
TagBad == <<"s", "h", ":", "z">>

Line(mod, tag, id, addr, flags, parent, slots) ==
    <<mod, tag, id, addr, flags, parent, "0", "0", "0", "connected">> \o slots

\* What a seed may say about each node: nothing, or one of these lines.
LinesN1 == { <<>>,
    <<Line(ModRW, TagBJ, "n1", "a1", {"master"}, "-", << <<"0", "-", "5">> >>)>>,
    <<Line(ModRW, TagBJ, "n1", "a1", {"master"}, "-", << <<"0", "-", "9">> >>)>> }

LinesN2 == { <<>>,
    <<Line(ModRW, TagBJ, "n2", "a2", {"slave"}, "n1", <<>>)>>,
    <<Line(ModRW, TagBJ, "n2", "a2", {"slave", "fail?"}, "n1", <<>>)>> }

LinesN3 == { <<>>,
    <<Line(ModRW, TagSH, "n3", "a3", {"slave"}, "n1", <<>>)>>,
    <<Line(ModRW, TagSH, "n3", "a3", {"slave", "fail?"}, "n1", <<>>)>>,
    <<Line(ModRW, TagBad, "n3", "a3", {"slave"}, "n1", <<>>)>> }

\* Replies of redis.ClusterNodes: a transport error, or a text whose last
\* line is blank.
Replies ==
    {[err |-> TRUE, lines |-> <<>>]} \cup
    {[err |-> FALSE, lines |-> l1 \o l2 \o l3 \o << <<>> >>] :
        l1 \in LinesN1, l2 \in LinesN2, l3 \in LinesN3}

\* buildNode of each line a seed sends, computed once and looked up.
SeedLines ==
    UNION {{ls[k] : k \in 1..Len(ls)} : ls \in LinesN1 \cup LinesN2 \cup LinesN3}

buildNodeOf == [line \in SeedLines |-> buildNode(line)]

\* initClusterTopo: [err, cluster] from the first live seed's reply.
RECURSIVE initLines(_, _)
initLines(lines, cluster) ==
    IF lines = <<>> THEN [err |-> "", cluster |-> cluster]
    ELSE IF Head(lines) = <<>> THEN initLines(Tail(lines), cluster)
    ELSE LET b == buildNodeOf[Head(lines)]
         IN  IF b.err # "" THEN [err |-> b.err, cluster |-> NilCluster]
             ELSE initLines(Tail(lines), AddNode(cluster, b.node))

initClusterTopo(resp) ==
    IF resp.err THEN [err |-> "ErrTransport", cluster |-> NilCluster]
    ELSE initLines(resp.lines, NewCluster(LocalRegion))

\* Mutant of checkLines: a later seed's suspicion is not counted.
RECURSIVE checkLines_NoCount(_, _)
checkLines_NoCount(lines, cluster) ==
    IF lines = <<>> THEN [err |-> "", cluster |-> cluster]
    ELSE IF Head(lines) = <<>> THEN checkLines_NoCount(Tail(lines), cluster)
    ELSE LET b == buildNodeOf[Head(lines)]
             k == FindIndex(cluster, b.node.id)
         IN  IF b.err # "" THEN [err |-> b.err, cluster |-> cluster]
             ELSE IF k = 0 THEN [err |-> "ErrNodeNotExist", cluster |-> cluster]
             ELSE IF ~Compare(cluster.nodes[k], b.node)
                  THEN [err |-> "ErrNodesInfoNotSame", cluster |-> cluster]
             ELSE checkLines_NoCount(Tail(lines), cluster)

\* checkClusterTopo: [err, cluster]; cluster is the cluster under construction
\* with the evidence counters this reply adds (also on an error return, where
\* the lines before the failing one have been counted).
RECURSIVE checkLines(_, _)
checkLines(lines, cluster) ==
    IF lines = <<>> THEN [err |-> "", cluster |-> cluster]
    ELSE IF Head(lines) = <<>> THEN checkLines(Tail(lines), cluster)
    ELSE LET b == buildNodeOf[Head(lines)]
             k == FindIndex(cluster, b.node.id)
         IN  IF b.err # "" THEN [err |-> b.err, cluster |-> cluster]
             ELSE IF k = 0 THEN [err |-> "ErrNodeNotExist", cluster |-> cluster]
             ELSE IF ~Compare(cluster.nodes[k], b.node)
                  THEN [err |-> "ErrNodesInfoNotSame", cluster |-> cluster]
             ELSE checkLines(Tail(lines),
                    IF b.node.pfail
                    THEN [cluster EXCEPT !.nodes[k].pfailCount = @ + 1]
                    ELSE cluster)

checkClusterTopo(resp, cluster) ==
    IF resp.err THEN [err |-> "ErrTransport", cluster |-> cluster]
    ELSE checkLines(resp.lines, cluster)

\* Mutant of Promote: half the local-region nodes suffice.
Promote_AtLeastHalf(cluster) ==
    [cluster EXCEPT !.nodes =
        [k \in 1..Len(cluster.nodes) |->
            IF /\ InLocalRegion(cluster, cluster.nodes[k])
               /\ cluster.nodes[k].pfailCount >= NumLocalRegionNode(cluster) \div 2
            THEN [cluster.nodes[k] EXCEPT !.fail = TRUE]
            ELSE cluster.nodes[k]]]

\* Lines 266-272: the quorum promotion over the local-region nodes.
Promote(cluster) ==
    [cluster EXCEPT !.nodes =
        [k \in 1..Len(cluster.nodes) |->
            IF /\ InLocalRegion(cluster, cluster.nodes[k])
               /\ cluster.nodes[k].pfailCount > NumLocalRegionNode(cluster) \div 2
            THEN [cluster.nodes[k] EXCEPT !.fail = TRUE]
            ELSE cluster.nodes[k]]]

\* fetchReplOffset on a reply of redis.FetchInfo(addr, "Replication"):
\* [err, role, master_repl_offset, slave_repl_offset].  An integer field is
\* <<v>>, or <<>> where info.GetInt64 fails (absent, or no integer).
fetchReplOffset(info) ==
    IF info.err THEN Sentinel
    ELSE IF info.role = "master"
         THEN IF info.master_repl_offset = <<>> THEN Sentinel
              ELSE info.master_repl_offset[1]
    ELSE IF info.slave_repl_offset = <<>> THEN Sentinel
    ELSE info.slave_repl_offset[1]

\* ------------------------------------------------------------------ state

VARIABLES
    Seeds,        \* Spectator.Seeds: sequence of nodes
    ClusterTopo,  \* Spectator.ClusterTopo: the published snapshot, or NilCluster
    rw,           \* Spectator.mutex: [readers, writer]
    tickChan,     \* ticks buffered in the ticker's channel
    dropped,      \* history: a tick was dropped since Run last received one
    bpc,          \* Run / BuildClusterTopo: position
    bi,           \* BuildClusterTopo: index of the next seed to probe
    live,         \* BuildClusterTopo: seeds (the local slice of live seeds)
    bj,           \* BuildClusterTopo: index in live of the next seed to cross-check
    cluster,      \* BuildClusterTopo: the cluster under construction
    berr,         \* BuildClusterTopo: the error being returned ("" for nil)
    preSeeds,     \* history: Seeds when the pass took the lock
    preTopo,      \* history: ClusterTopo when the pass took the lock
    agree,        \* history: every reply cross-checked so far equals the first
    calls,        \* history: the network calls of the pass, in order
    rpc,          \* reader: position
    rrs,          \* reader: rs, the replica set resolved or passed in
    rmap,         \* reader: the offsets FetchReplOffsetInReplicaSet returned
    rsl,          \* reader: slaveOnly
    rret,         \* reader: MaxReploffSlibing's return values [id, err]
    fpc,          \* FetchReplOffsetInReplicaSet, one call in detail: position
    fnodes,       \* its nodes := rs.AllNodes()
    fchan,        \* its channel c
    fwork,        \* its probe goroutines: [st, off] per node index
    fresult,      \* its result map
    fi,           \* its receive loop counter i
    pline,        \* buildNode on its own: the line
    pout,         \* buildNode on its own: <<>>, or <<what it returned>>
    heap,         \* the passes by reference: the object at each address
    pub           \* history: the published objects as they were published

sharedVars == <<Seeds, ClusterTopo, rw>>
tickVars   == <<tickChan, dropped>>
passVars   == <<bpc, bi, live, bj, cluster, berr, preSeeds, preTopo, agree,
               calls>>
readVars   == <<rpc, rrs, rmap, rsl, rret>>
fetchVars  == <<fpc, fnodes, fchan, fwork, fresult, fi>>
parseVars  == <<pline, pout>>
heapVars   == <<heap, pub>>
auxVars    == <<parseVars, heapVars>>
vars == <<sharedVars, tickVars, passVars, readVars, fetchVars, auxVars>>

\* ------------------------------------------------------------ environment

Addrs == {"a1", "a2", "a3"}

\* Ids a caller may ask about: the cluster's, and one no node has.
QueryIds == {"n1", "n2", "n3", "nx"}

IntFields == {<<>>} \cup {<<v>> : v \in 0..MaxOffset}

\* Replies of redis.FetchInfo(addr, "Replication").
Infos ==
    [err : BOOLEAN, role : {"master", "slave"},
     master_repl_offset : IntFields, slave_repl_offset : IntFields]

Offsets == {fetchReplOffset(info) : info \in Infos}

SeedLists ==
    UNION {[1..n -> {NewNodeFromString(a) : a \in Addrs}] : n \in 0..MaxSeeds}

\* ------------------------------------------------------------ sync.RWMutex
\* A pending Lock blocks new RLocks; Lock returns when no reader is left.

RLockReady == rw.writer = "none"
RLock      == [rw EXCEPT !.readers = @ + 1]
RUnlock    == [rw EXCEPT !.readers = @ - 1]
LockCalled == [rw EXCEPT !.writer = "pending"]
LockReady  == rw.readers = 0
LockTaken  == [rw EXCEPT !.writer = "held"]
Unlock     == [rw EXCEPT !.writer = "none"]

\* -------------------------------------------------------------------- Init

NoRet == [id |-> "", err |-> ""]

FetchIdle ==
    /\ fpc = "off"
    /\ fnodes = <<>>
    /\ fchan = <<>>
    /\ fwork = <<>>
    /\ fresult = <<>>
    /\ fi = 0

ParseIdle ==
    /\ pline = <<>>
    /\ pout = <<>>

HeapIdle ==
    /\ heap = <<>>
    /\ pub = <<>>

AuxIdle == ParseIdle /\ HeapIdle

Init ==
    /\ Seeds \in SeedLists
    /\ ClusterTopo = NilCluster
    /\ rw = [readers |-> 0, writer |-> "none"]
    /\ tickChan = 0
    /\ dropped = FALSE
    /\ bpc = "idle"
    /\ bi = 0
    /\ live = <<>>
    /\ bj = 0
    /\ cluster = NilCluster
    /\ berr = ""
    /\ preSeeds = <<>>
    /\ preTopo = NilCluster
    /\ agree = TRUE
    /\ calls = <<>>
    /\ rpc = "idle"
    /\ rrs = <<>>
    /\ rmap = <<>>
    /\ rsl = FALSE
    /\ rret = NoRet
    /\ FetchIdle
    /\ AuxIdle

\* ------------------------------------------- history of the network calls

\* The ids a reply marks as suspected: the lines whose flags carry "fail?".
MarkedIn(resp) ==
    {resp.lines[k][3] : k \in {m \in 1..Len(resp.lines) :
                                  /\ resp.lines[m] # <<>>
                                  /\ "fail?" \in resp.lines[m][5]}}

\* The record of one redis.IsAlive(addr).
Probed(addr, alive) ==
    [op |-> "IsAlive", addr |-> addr, ok |-> alive, same |-> TRUE, marked |-> {}]

\* The record of one redis.ClusterNodes(addr): whether the pass accepted the
\* reply, whether the view equals the first seed's, and the ids it marks.
Fetched(addr, resp, ok, same) ==
    [op |-> "ClusterNodes", addr |-> addr, ok |-> ok, same |-> same,
     marked |-> IF ok THEN MarkedIn(resp) ELSE {}]

\* ------------------------------------------------------------- the ticker

\* Mutant of Tick: a tick that finds one pending is queued behind it.
Tick_Queued ==
    /\ tickChan' = IF tickChan < TickCap + 1 THEN tickChan + 1 ELSE tickChan
    /\ dropped' = (dropped \/ tickChan >= TickCap + 1)
    /\ UNCHANGED <<sharedVars, passVars, readVars, fetchVars, auxVars>>

\* The runtime's timer send on the ticker channel: non-blocking, so a tick
\* that finds the buffer full is dropped.
Tick ==
    /\ tickChan' = IF tickChan < TickCap THEN tickChan + 1 ELSE tickChan
    /\ dropped' = (dropped \/ tickChan >= TickCap)
    /\ UNCHANGED <<sharedVars, passVars, readVars, fetchVars, auxVars>>

\* Run, lines 39-42: receive a tick, call BuildClusterTopo.
Run ==
    /\ bpc = "idle"
    /\ tickChan > 0
    /\ tickChan' = tickChan - 1
    /\ dropped' = FALSE
    /\ bpc' = "lock"
    /\ UNCHANGED <<sharedVars, bi, live, bj, cluster, berr, preSeeds, preTopo,
                   agree, calls, readVars, fetchVars, auxVars>>

\* -------------------------------------------------------- BuildClusterTopo

\* Leaving the pass with an error: nothing but the return value is set.
Fail(err) ==
    /\ berr' = err
    /\ bpc' = IF err = "panic" THEN "panic" ELSE "ret"

\* Line 233: Lock() is called and announces the writer.
B_Lock ==
    /\ bpc = "lock"
    /\ rw' = LockCalled
    /\ bpc' = "locking"
    /\ UNCHANGED <<Seeds, ClusterTopo, tickVars, bi, live, bj, cluster, berr,
                   preSeeds, preTopo, agree, calls, readVars, fetchVars, auxVars>>

\* Line 233: Lock() returns once the readers have left.
B_Locked ==
    /\ bpc = "locking"
    /\ LockReady
    /\ rw' = LockTaken
    /\ bpc' = "seeds"
    /\ preSeeds' = Seeds
    /\ preTopo' = ClusterTopo
    /\ UNCHANGED <<Seeds, ClusterTopo, tickVars, bi, live, bj, cluster, berr,
                   agree, calls, readVars, fetchVars, auxVars>>

\* Lines 236-240.
B_NoSeeds ==
    /\ bpc = "seeds"
    /\ IF Len(Seeds) = 0
       THEN Fail("ErrNoSeed") /\ UNCHANGED <<bi, live>>
       ELSE bpc' = "alive" /\ bi' = 1 /\ live' = <<>> /\ UNCHANGED berr
    /\ UNCHANGED <<sharedVars, tickVars, bj, cluster, preSeeds, preTopo, agree,
                   calls, readVars, fetchVars, auxVars>>

\* Mutant of B_IsAlive: a seed that does not answer is kept as live.
B_IsAlive_KeepsAll ==
    /\ bpc = "alive"
    /\ bi <= Len(Seeds)
    /\ \E alive \in BOOLEAN :
          /\ live' = Append(live, Seeds[bi])
          /\ calls' = Append(calls, Probed(Seeds[bi].addr, alive))
    /\ bi' = bi + 1
    /\ UNCHANGED <<sharedVars, tickVars, bpc, bj, cluster, berr, preSeeds, preTopo,
                   agree, readVars, fetchVars, auxVars>>

\* Lines 241-245, one iteration: redis.IsAlive answers either way.
B_IsAlive ==
    /\ bpc = "alive"
    /\ bi <= Len(Seeds)
    /\ \E alive \in BOOLEAN :
          /\ live' = IF alive THEN Append(live, Seeds[bi]) ELSE live
          /\ calls' = Append(calls, Probed(Seeds[bi].addr, alive))
    /\ bi' = bi + 1
    /\ UNCHANGED <<sharedVars, tickVars, bpc, bj, cluster, berr, preSeeds, preTopo,
                   agree, readVars, fetchVars, auxVars>>

\* Lines 247-249.
B_NoLive ==
    /\ bpc = "alive"
    /\ bi > Len(Seeds)
    /\ IF Len(live) = 0 THEN Fail("ErrNoSeed") ELSE bpc' = "init" /\ UNCHANGED berr
    /\ UNCHANGED <<sharedVars, tickVars, bi, live, bj, cluster, preSeeds, preTopo,
                   agree, calls, readVars, fetchVars, auxVars>>

\* Lines 251-255: the first live seed's reply builds the cluster.
B_Init ==
    /\ bpc = "init"
    /\ \E resp \in Replies :
          LET r == initClusterTopo(resp)
          IN  /\ IF r.err # ""
                 THEN Fail(r.err) /\ UNCHANGED <<cluster, bj>>
                 ELSE cluster' = r.cluster /\ bj' = 2 /\ bpc' = "check"
                      /\ UNCHANGED berr
              /\ calls' = Append(calls, Fetched(live[1].addr, resp, r.err = "",
                                                TRUE))
    /\ agree' = TRUE
    /\ UNCHANGED <<sharedVars, tickVars, bi, live, preSeeds, preTopo,
                   readVars, fetchVars, auxVars>>

\* The reply parses, names the ids of the cluster and no others, and every
\* node of it compares equal to the cluster's node of that id.
ViewAgrees(resp, c) ==
    /\ ~resp.err
    /\ LET ls == SelectSeq(resp.lines, LAMBDA l : l # <<>>)
           bs == [k \in 1..Len(ls) |-> buildNodeOf[ls[k]]]
       IN  /\ \A k \in 1..Len(ls) : bs[k].err = ""
           /\ {bs[k].node.id : k \in 1..Len(ls)}
                 = {c.nodes[m].id : m \in 1..Len(c.nodes)}
           /\ \A k \in 1..Len(ls) : \A m \in 1..Len(c.nodes) :
                 c.nodes[m].id = bs[k].node.id => Compare(c.nodes[m], bs[k].node)

\* Mutant of B_Check: the cluster is published as it is built, so a failed
\* cross-check leaves it behind.
B_Check_PublishesOnError ==
    /\ bpc = "check"
    /\ bj <= Len(live)
    /\ \E resp \in Replies :
          LET r == checkClusterTopo(resp, cluster)
          IN  /\ IF r.err # ""
                 THEN Fail(r.err) /\ cluster' = r.cluster /\ UNCHANGED bj
                 ELSE cluster' = r.cluster /\ bj' = bj + 1 /\ UNCHANGED <<bpc, berr>>
              /\ ClusterTopo' = r.cluster
              /\ agree' = (r.err = "" => (agree /\ ViewAgrees(resp, cluster)))
              /\ calls' = Append(calls, Fetched(live[bj].addr, resp, r.err = "",
                                                ViewAgrees(resp, cluster)))
    /\ UNCHANGED <<Seeds, rw, tickVars, bi, live, preSeeds, preTopo,
                   readVars, fetchVars, auxVars>>

\* Mutant of B_Check: a failed cross-check is passed over and the loop goes
\* on to the next live seed.
B_Check_GoesOn ==
    /\ bpc = "check"
    /\ bj <= Len(live)
    /\ \E resp \in Replies :
          LET r == checkClusterTopo(resp, cluster)
          IN  /\ cluster' = r.cluster /\ bj' = bj + 1 /\ UNCHANGED <<bpc, berr>>
              /\ agree' = (r.err = "" => (agree /\ ViewAgrees(resp, cluster)))
              /\ calls' = Append(calls, Fetched(live[bj].addr, resp, r.err = "",
                                                ViewAgrees(resp, cluster)))
    /\ UNCHANGED <<sharedVars, tickVars, bi, live, preSeeds, preTopo,
                   readVars, fetchVars, auxVars>>

\* Lines 257-264, one iteration: the next live seed's reply is cross-checked.
B_Check ==
    /\ bpc = "check"
    /\ bj <= Len(live)
    /\ \E resp \in Replies :
          LET r == checkClusterTopo(resp, cluster)
          IN  /\ IF r.err # ""
                 THEN Fail(r.err) /\ cluster' = r.cluster /\ UNCHANGED bj
                 ELSE cluster' = r.cluster /\ bj' = bj + 1 /\ UNCHANGED <<bpc, berr>>
              /\ agree' = (r.err = "" => (agree /\ ViewAgrees(resp, cluster)))
              /\ calls' = Append(calls, Fetched(live[bj].addr, resp, r.err = "",
                                                ViewAgrees(resp, cluster)))
    /\ UNCHANGED <<sharedVars, tickVars, bi, live, preSeeds, preTopo,
                   readVars, fetchVars, auxVars>>

\* Lines 266-272.
B_Promote ==
    /\ bpc = "check"
    /\ bj > Len(live)
    /\ cluster' = Promote(cluster)
    /\ bpc' = "derive"
    /\ UNCHANGED <<sharedVars, tickVars, bi, live, bj, berr, preSeeds, preTopo,
                   agree, calls, readVars, fetchVars, auxVars>>

\* Line 274.
B_BuildReplicaSets ==
    /\ bpc = "derive"
    /\ cluster' = BuildReplicaSets(cluster)
    /\ bpc' = "setseeds"
    /\ UNCHANGED <<sharedVars, tickVars, bi, live, bj, berr, preSeeds, preTopo,
                   agree, calls, readVars, fetchVars, auxVars>>

\* Mutant of B_SetSeeds: every node of the cluster becomes a seed.
B_SetSeeds_AllNodes ==
    /\ bpc = "setseeds"
    /\ Seeds' = cluster.nodes
    /\ bpc' = "publish"
    /\ UNCHANGED <<ClusterTopo, rw, tickVars, bi, live, bj, cluster, berr,
                   preSeeds, preTopo, agree, calls, readVars, fetchVars, auxVars>>

\* Line 276.
B_SetSeeds ==
    /\ bpc = "setseeds"
    /\ Seeds' = LocalRegionNodes(cluster)
    /\ bpc' = "publish"
    /\ UNCHANGED <<ClusterTopo, rw, tickVars, bi, live, bj, cluster, berr,
                   preSeeds, preTopo, agree, calls, readVars, fetchVars, auxVars>>

\* Line 277.
B_Publish ==
    /\ bpc = "publish"
    /\ ClusterTopo' = cluster
    /\ berr' = ""
    /\ bpc' = "ret"
    /\ UNCHANGED <<Seeds, rw, tickVars, bi, live, bj, cluster, preSeeds, preTopo,
                   agree, calls, readVars, fetchVars, auxVars>>

\* The return, and the deferred Unlock of line 234.  The locals die.
B_Return ==
    /\ bpc = "ret"
    /\ rw' = Unlock
    /\ bpc' = "idle"
    /\ bi' = 0
    /\ live' = <<>>
    /\ bj' = 0
    /\ cluster' = NilCluster
    /\ berr' = ""
    /\ preSeeds' = <<>>
    /\ preTopo' = NilCluster
    /\ agree' = TRUE
    /\ calls' = <<>>
    /\ UNCHANGED <<Seeds, ClusterTopo, tickVars, readVars, fetchVars, auxVars>>

\* ------------------------------------------------------- MaxReploffSlibing

Perms(S) ==
    {f \in [1..Cardinality(S) -> S] : \A a, b \in DOMAIN f : f[a] = f[b] => a = b}

\* Mutant of ScanStart: the running maximum starts at 0.
ScanStart_Zero == [maxVal |-> 0, maxId |-> "", err |-> ""]

\* Line 85-86: the running maximum before the loop.
ScanStart == [maxVal |-> Sentinel, maxId |-> "", err |-> ""]

\* Mutant of ScanStep: the running maximum is never raised.
ScanStep_KeepsLast(acc, id, val, slaveOnly, topo) ==
    LET k == FindIndex(topo, id)
    IN  IF acc.err # "" THEN acc
        ELSE IF slaveOnly /\ k = 0 THEN [acc EXCEPT !.err = "panic"]
        ELSE IF slaveOnly /\ IsMaster(topo.nodes[k]) THEN acc
        ELSE IF val > acc.maxVal THEN [acc EXCEPT !.maxId = id]
        ELSE acc

\* Lines 88-95, one iteration of the loop over rmap.  k is the position of
\* FindNode(id) in the snapshot, 0 for none: node.IsMaster() on no node
\* panics, and is evaluated only if slaveOnly is set.
ScanStep(acc, id, val, slaveOnly, topo) ==
    LET k == FindIndex(topo, id)
    IN  IF acc.err # "" THEN acc
        ELSE IF slaveOnly /\ k = 0 THEN [acc EXCEPT !.err = "panic"]
        ELSE IF slaveOnly /\ IsMaster(topo.nodes[k]) THEN acc
        ELSE IF val > acc.maxVal THEN [acc EXCEPT !.maxVal = val, !.maxId = id]
        ELSE acc

\* Lines 85-98 for one iteration order of the map.
RECURSIVE ScanFrom(_, _, _, _, _)
ScanFrom(acc, order, m, slaveOnly, topo) ==
    IF order = <<>> THEN acc
    ELSE ScanFrom(ScanStep(acc, Head(order), m[Head(order)], slaveOnly, topo),
                  Tail(order), m, slaveOnly, topo)

MaxScan(order, m, slaveOnly, topo) ==
    LET acc == ScanFrom(ScanStart, order, m, slaveOnly, topo)
    IN  [id |-> acc.maxId, err |-> acc.err]

\* Mutant of R_RLock: the query starts without taking the shared lock.
R_RLock_Missing ==
    /\ rpc = "idle"
    /\ ~ClusterTopo.nil
    /\ rpc' = "find"
    /\ UNCHANGED <<sharedVars, tickVars, passVars, rrs, rmap, rsl, rret, fetchVars, auxVars>>

\* Callers ask once a snapshot has been published: on a nil ClusterTopo the
\* query dereferences a nil cluster.
\* Line 75.
R_RLock ==
    /\ rpc = "idle"
    /\ ~ClusterTopo.nil
    /\ RLockReady
    /\ rw' = RLock
    /\ rpc' = "find"
    /\ UNCHANGED <<Seeds, ClusterTopo, tickVars, passVars, rrs, rmap, rsl, rret,
                   fetchVars, auxVars>>

\* Mutant of R_Find: the shared lock is given back once the replica set is
\* resolved.
R_Find_Unlocks ==
    /\ rpc = "find"
    /\ \E id \in QueryIds :
          LET k == FindReplicaSetByNode(ClusterTopo, id)
          IN  IF k = 0
              THEN /\ rret' = [id |-> "", err |-> "ErrNodeNotExist"]
                   /\ rpc' = "ret"
                   /\ UNCHANGED <<rrs, rw>>
              ELSE /\ rrs' = ClusterTopo.replicaSets[k]
                   /\ rpc' = "rlock2"
                   /\ rw' = RUnlock
                   /\ UNCHANGED rret
    /\ UNCHANGED <<Seeds, ClusterTopo, tickVars, passVars, rmap, rsl, fetchVars, auxVars>>

\* Lines 78-81.
R_Find ==
    /\ rpc = "find"
    /\ \E id \in QueryIds :
          LET k == FindReplicaSetByNode(ClusterTopo, id)
          IN  IF k = 0
              THEN /\ rret' = [id |-> "", err |-> "ErrNodeNotExist"]
                   /\ rpc' = "ret"
                   /\ UNCHANGED rrs
              ELSE /\ rrs' = ClusterTopo.replicaSets[k]
                   /\ rpc' = "rlock2"
                   /\ UNCHANGED rret
    /\ UNCHANGED <<sharedVars, tickVars, passVars, rmap, rsl, fetchVars, auxVars>>

\* Line 102, reached from line 83 with the RLock of line 75 still held.
F_RLock ==
    /\ rpc = "rlock2"
    /\ RLockReady
    /\ rw' = RLock
    /\ rpc' = "fetch"
    /\ UNCHANGED <<Seeds, ClusterTopo, tickVars, passVars, rrs, rmap, rsl, rret,
                   fetchVars, auxVars>>

\* Lines 105-120 and the deferred RUnlock of line 103: one offset (or the
\* sentinel) per member.  The goroutines of the fan-out share nothing with
\* the rest of the Spectator; FS_* below follow them one by one.
F_Fetch ==
    /\ rpc = "fetch"
    /\ rmap' \in [MemberIds(rrs) -> Offsets]
    /\ rw' = RUnlock
    /\ rpc' = "scan"
    /\ UNCHANGED <<Seeds, ClusterTopo, tickVars, passVars, rrs, rsl, rret, fetchVars, auxVars>>

\* Lines 85-96, for every iteration order of rmap.
R_Scan ==
    /\ rpc = "scan"
    /\ \E order \in Perms(DOMAIN rmap), slaveOnly \in BOOLEAN :
          /\ rret' = MaxScan(order, rmap, slaveOnly, ClusterTopo)
          /\ rsl' = slaveOnly
    /\ rpc' = "ret"
    /\ UNCHANGED <<sharedVars, tickVars, passVars, rrs, rmap, fetchVars, auxVars>>

\* The return, and the deferred RUnlock of line 76.
R_Return ==
    /\ rpc = "ret"
    /\ rw' = RUnlock
    /\ rpc' = "idle"
    /\ rrs' = <<>>
    /\ rmap' = <<>>
    /\ rsl' = FALSE
    /\ rret' = NoRet
    /\ UNCHANGED <<Seeds, ClusterTopo, tickVars, passVars, fetchVars, auxVars>>

\* FetchReplOffsetInReplicaSet called on its own, line 102: the caller passes
\* a replica set of the current snapshot.
D_RLock ==
    /\ rpc = "idle"
    /\ ~ClusterTopo.nil
    /\ RLockReady
    /\ \E k \in 1..Len(ClusterTopo.replicaSets) : rrs' = ClusterTopo.replicaSets[k]
    /\ rw' = RLock
    /\ rpc' = "dfetch"
    /\ UNCHANGED <<Seeds, ClusterTopo, tickVars, passVars, rmap, rsl, rret, fetchVars, auxVars>>

\* Lines 105-120 and the deferred RUnlock of line 103: the map goes to the
\* caller.
D_Fetch ==
    /\ rpc = "dfetch"
    /\ \E m \in [MemberIds(rrs) -> Offsets] : TRUE
    /\ rw' = RUnlock
    /\ rpc' = "idle"
    /\ rrs' = <<>>
    /\ UNCHANGED <<Seeds, ClusterTopo, tickVars, passVars, rmap, rsl, rret, fetchVars, auxVars>>

\* -------------------------------------------------------------------- Spec

Next ==
    \/ Tick
    \/ Run
    \/ B_Lock
    \/ B_Locked
    \/ B_NoSeeds
    \/ B_IsAlive
    \/ B_NoLive
    \/ B_Init
    \/ B_Check
    \/ B_Promote
    \/ B_BuildReplicaSets
    \/ B_SetSeeds
    \/ B_Publish
    \/ B_Return
    \/ R_RLock
    \/ R_Find
    \/ F_RLock
    \/ F_Fetch
    \/ R_Scan
    \/ R_Return
    \/ D_RLock
    \/ D_Fetch

Spec == Init /\ [][Next]_vars

\* ------------------------------------------------------------ scheduling
\* The timer keeps sending ticks; the goroutine of Run takes its next step
\* whenever it can, and so does a query once it has been called: the network
\* calls return and the Go scheduler starves no goroutine.  Nobody is obliged
\* to call a query.

RunProc ==
    \/ Run
    \/ B_Lock
    \/ B_Locked
    \/ B_NoSeeds
    \/ B_IsAlive
    \/ B_NoLive
    \/ B_Init
    \/ B_Check
    \/ B_Promote
    \/ B_BuildReplicaSets
    \/ B_SetSeeds
    \/ B_Publish
    \/ B_Return

QueryProc ==
    \/ R_Find
    \/ F_RLock
    \/ F_Fetch
    \/ R_Scan
    \/ R_Return
    \/ D_Fetch

SpecLive ==
    /\ Init /\ [][Next]_vars
    /\ WF_vars(Tick)
    /\ WF_vars(RunProc)
    /\ WF_vars(QueryProc)

\* ------------------------------------------------------ the refresh alone
\* BuildClusterTopo called directly, one call after another, with no ticker
\* and no read query under way, on seed lists of up to MaxLive seeds.

AddrSeq == <<"a1", "a2", "a3">>

\* The seed lists up to a renaming of the addresses: each address is one
\* already listed or the next unused one.
PassSeedLists ==
    LET shapes(n) == {f \in [1..n -> 1..Len(AddrSeq)] :
                        \A k \in 1..n :
                           \A v \in 1..(f[k] - 1) : \E m \in 1..(k - 1) : f[m] = v}
    IN  UNION {{[k \in 1..n |-> NewNodeFromString(AddrSeq[f[k]])] : f \in shapes(n)}
               : n \in 0..MaxLive}

PassInit ==
    /\ Seeds \in PassSeedLists
    /\ ClusterTopo = NilCluster
    /\ rw = [readers |-> 0, writer |-> "none"]
    /\ tickChan = 0
    /\ dropped = FALSE
    /\ bpc = "idle"
    /\ bi = 0
    /\ live = <<>>
    /\ bj = 0
    /\ cluster = NilCluster
    /\ berr = ""
    /\ preSeeds = <<>>
    /\ preTopo = NilCluster
    /\ agree = TRUE
    /\ calls = <<>>
    /\ rpc = "idle"
    /\ rrs = <<>>
    /\ rmap = <<>>
    /\ rsl = FALSE
    /\ rret = NoRet
    /\ FetchIdle
    /\ AuxIdle

\* A caller enters BuildClusterTopo, line 232.
B_Call ==
    /\ bpc = "idle"
    /\ bpc' = "lock"
    /\ UNCHANGED <<sharedVars, tickVars, bi, live, bj, cluster, berr, preSeeds,
                   preTopo, agree, calls, readVars, fetchVars, auxVars>>

PassNext ==
    \/ B_Call
    \/ B_Lock
    \/ B_Locked
    \/ B_NoSeeds
    \/ B_IsAlive
    \/ B_NoLive
    \/ B_Init
    \/ B_Check
    \/ B_Promote
    \/ B_BuildReplicaSets
    \/ B_SetSeeds
    \/ B_Publish
    \/ B_Return

SpecPass == PassInit /\ [][PassNext]_vars

\* --------------------------------- FetchReplOffsetInReplicaSet, in detail
\* One call, goroutine by goroutine, on a replica set of 1..MaxMembers
\* members with distinct ids.

MemberNames == <<"n1", "n2", "n3", "n4", "n5">>

Member(k) == [NewNodeFromString(MemberNames[k]) EXCEPT !.id = MemberNames[k]]

MemberLists == {[k \in 1..n |-> Member(k)] : n \in 1..MaxMembers}

EmptyMap == [id \in {} |-> 0]

\* Line 106: the capacity of c.
ChanCap(nodes) == Len(nodes)

\* Mutant of RecvCount: the receive loop stops one short.
RecvCount_OneShort(nodes) == Len(nodes) - 1

\* Line 116: the number of receives.
RecvCount(nodes) == Len(nodes)

FInit ==
    /\ Seeds = <<>>
    /\ ClusterTopo = NilCluster
    /\ rw = [readers |-> 0, writer |-> "none"]
    /\ tickChan = 0
    /\ dropped = FALSE
    /\ bpc = "idle"
    /\ bi = 0
    /\ live = <<>>
    /\ bj = 0
    /\ cluster = NilCluster
    /\ berr = ""
    /\ preSeeds = <<>>
    /\ preTopo = NilCluster
    /\ agree = TRUE
    /\ calls = <<>>
    /\ rpc = "idle"
    /\ rrs = <<>>
    /\ rmap = <<>>
    /\ rsl = FALSE
    /\ rret = NoRet
    /\ fpc = "call"
    /\ fnodes \in MemberLists
    /\ fchan = <<>>
    /\ fwork = <<>>
    /\ fresult = EmptyMap
    /\ fi = 0
    /\ AuxIdle

\* Line 102.
FS_RLock ==
    /\ fpc = "call"
    /\ RLockReady
    /\ rw' = RLock
    /\ fpc' = "spawn"
    /\ UNCHANGED <<Seeds, ClusterTopo, tickVars, passVars, readVars, auxVars,
                   fnodes, fchan, fwork, fresult, fi>>

\* Lines 108-113, one iteration: start the goroutine of the next node.
FS_Go ==
    /\ fpc = "spawn"
    /\ Len(fwork) < Len(fnodes)
    /\ fwork' = Append(fwork, [st |-> "probe",
                               id |-> fnodes[Len(fwork) + 1].id,
                               off |-> Sentinel])
    /\ UNCHANGED <<sharedVars, tickVars, passVars, readVars, auxVars,
                   fpc, fnodes, fchan, fresult, fi>>

\* Line 115, after the last iteration of the loop of line 108.
FS_Collect ==
    /\ fpc = "spawn"
    /\ Len(fwork) = Len(fnodes)
    /\ fresult' = EmptyMap
    /\ fi' = 0
    /\ fpc' = "recv"
    /\ UNCHANGED <<sharedVars, tickVars, passVars, readVars, auxVars, fnodes, fchan, fwork>>

\* Line 110, in goroutine w.
W_Probe(w) ==
    /\ fwork[w].st = "probe"
    /\ \E info \in Infos :
          fwork' = [fwork EXCEPT ![w].off = fetchReplOffset(info), ![w].st = "send"]
    /\ UNCHANGED <<sharedVars, tickVars, passVars, readVars, auxVars,
                   fpc, fnodes, fchan, fresult, fi>>

\* Line 111, in goroutine w: the send waits for room in c.
W_Send(w) ==
    /\ fwork[w].st = "send"
    /\ Len(fchan) < ChanCap(fnodes)
    /\ fchan' = Append(fchan, [NodeId |-> fwork[w].id, Offset |-> fwork[w].off])
    /\ fwork' = [fwork EXCEPT ![w].st = "done"]
    /\ UNCHANGED <<sharedVars, tickVars, passVars, readVars, auxVars, fpc, fnodes, fresult, fi>>

\* Lines 116-119, one iteration.
FS_Recv ==
    /\ fpc = "recv"
    /\ fi < RecvCount(fnodes)
    /\ fchan # <<>>
    /\ fresult' = [id \in DOMAIN fresult \cup {Head(fchan).NodeId} |->
                      IF id = Head(fchan).NodeId THEN Head(fchan).Offset
                      ELSE fresult[id]]
    /\ fchan' = Tail(fchan)
    /\ fi' = fi + 1
    /\ UNCHANGED <<sharedVars, tickVars, passVars, readVars, auxVars, fpc, fnodes, fwork>>

\* Line 120, and the deferred RUnlock of line 103.
FS_Return ==
    /\ fpc = "recv"
    /\ fi >= RecvCount(fnodes)
    /\ rw' = RUnlock
    /\ fpc' = "done"
    /\ UNCHANGED <<Seeds, ClusterTopo, tickVars, passVars, readVars, auxVars,
                   fnodes, fchan, fwork, fresult, fi>>

FNext ==
    \/ FS_RLock
    \/ FS_Go
    \/ FS_Collect
    \/ \E w \in 1..Len(fwork) : W_Probe(w)
    \/ \E w \in 1..Len(fwork) : W_Send(w)
    \/ FS_Recv
    \/ FS_Return

SpecFetch == FInit /\ [][FNext]_vars

\* ------------------------------------------------- the passes, by reference
\* BuildClusterTopo called directly, one call after another, with the nodes
\* and clusters as objects on a heap.  Here Seeds and live hold the
\* addresses of nodes, ClusterTopo and cluster hold a reference to a
\* cluster object, and a cluster object lists the addresses of its nodes.
\* An object no reference leads to is reclaimed, and when a pass returns
\* the objects that are left are moved down to the lowest addresses.

HeapAddrs == 1..(MaxSeeds + 2 * (Len(AddrSeq) + 2))

Free == [free |-> TRUE]

IsFree(o) == "free" \in DOMAIN o

IsCluster(o) == "nodes" \in DOMAIN o

Ref(a) == [nil |-> FALSE, ref |-> a]

RefsOf(r) == IF r.nil THEN {} ELSE {r.ref}

SeqSet(q) == {q[k] : k \in 1..Len(q)}

\* The lowest free address.
Alloc(h) ==
    CHOOSE a \in DOMAIN h : IsFree(h[a]) /\ \A b \in 1..(a - 1) : ~IsFree(h[b])

\* The objects the roots lead to: the roots and the nodes of their clusters.
Reach(h, roots) ==
    roots \cup UNION {SeqSet(h[c].nodes) : c \in {r \in roots : IsCluster(h[r])}}

Sweep(h, roots) ==
    [a \in DOMAIN h |-> IF a \in Reach(h, roots) THEN h[a] ELSE Free]

RootsOf(seeds, lv, topo, c) ==
    SeqSet(seeds) \cup SeqSet(lv) \cup RefsOf(topo) \cup RefsOf(c)

\* The objects ClusterTopo and Seeds lead to, each once: the cluster, its
\* nodes, and the seeds that are no node of it.
Order(h, seeds, topo) ==
    LET cl == IF topo.nil THEN <<>> ELSE <<topo.ref>> \o h[topo.ref].nodes
    IN  cl \o SelectSeq(seeds, LAMBDA a : a \notin SeqSet(cl))

Pos(ord, a) == CHOOSE k \in 1..Len(ord) : ord[k] = a

\* The object o with the addresses it holds replaced by the new ones.
Moved(o, ord) ==
    IF IsCluster(o)
    THEN [o EXCEPT
            !.nodes = [k \in 1..Len(o.nodes) |-> Pos(ord, o.nodes[k])],
            !.replicaSets =
               [k \in 1..Len(o.replicaSets) |->
                  [master |-> Pos(ord, o.replicaSets[k].master),
                   slaves |-> [m \in 1..Len(o.replicaSets[k].slaves) |->
                                  Pos(ord, o.replicaSets[k].slaves[m])]]]]
    ELSE o

Compact(h, ord) ==
    [a \in DOMAIN h |-> IF a <= Len(ord) THEN Moved(h[ord[a]], ord) ELSE Free]

\* The cluster at address c with its nodes in place of their addresses.
Deref(h, c) ==
    [h[c] EXCEPT !.nodes = [k \in 1..Len(h[c].nodes) |-> h[h[c].nodes[k]]]]

\* Mutant of H_NewCluster: the published cluster is cleared and filled again.
H_NewCluster_Reuses(h) ==
    IF ~ClusterTopo.nil
    THEN [heap |-> [h EXCEPT ![ClusterTopo.ref] = NewCluster(LocalRegion)],
          ref |-> ClusterTopo.ref]
    ELSE LET c == Alloc(h)
         IN  [heap |-> [h EXCEPT ![c] = NewCluster(LocalRegion)], ref |-> c]

\* Line 178: topo.NewCluster makes a cluster object.
H_NewCluster(h) ==
    LET c == Alloc(h)
    IN  [heap |-> [h EXCEPT ![c] = NewCluster(LocalRegion)], ref |-> c]

\* Lines 180-194: each line's node is a new object (NewNodeFromString, line
\* 126), added to the cluster at c.
RECURSIVE H_initLines(_, _, _)
H_initLines(lines, h, c) ==
    IF lines = <<>> THEN [err |-> "", heap |-> h]
    ELSE IF Head(lines) = <<>> THEN H_initLines(Tail(lines), h, c)
    ELSE LET b == buildNodeOf[Head(lines)]
             a == Alloc(h)
         IN  IF b.err # "" THEN [err |-> b.err, heap |-> h]
             ELSE H_initLines(Tail(lines),
                    [h EXCEPT ![a] = b.node, ![c].nodes = Append(@, a)], c)

H_initClusterTopo(h, resp) ==
    IF resp.err THEN [err |-> "ErrTransport", heap |-> h, cluster |-> NilCluster]
    ELSE LET n == H_NewCluster(h)
             r == H_initLines(resp.lines, n.heap, n.ref)
         IN  [err |-> r.err, heap |-> r.heap,
              cluster |-> IF r.err = "" THEN Ref(n.ref) ELSE NilCluster]

\* Lines 203-227: the node FindNode returns is an object of the cluster at
\* c, and IncrPFailCount writes to it.
RECURSIVE H_checkLines(_, _, _)
H_checkLines(lines, h, c) ==
    IF lines = <<>> THEN [err |-> "", heap |-> h]
    ELSE IF Head(lines) = <<>> THEN H_checkLines(Tail(lines), h, c)
    ELSE LET b == buildNodeOf[Head(lines)]
             k == FindIndex(Deref(h, c), b.node.id)
         IN  IF b.err # "" THEN [err |-> b.err, heap |-> h]
             ELSE IF k = 0 THEN [err |-> "ErrNodeNotExist", heap |-> h]
             ELSE IF ~Compare(h[h[c].nodes[k]], b.node)
                  THEN [err |-> "ErrNodesInfoNotSame", heap |-> h]
             ELSE H_checkLines(Tail(lines),
                    IF b.node.pfail
                    THEN [h EXCEPT ![h[c].nodes[k]].pfailCount = @ + 1]
                    ELSE h, c)

H_checkClusterTopo(h, resp, c) ==
    IF resp.err THEN [err |-> "ErrTransport", heap |-> h]
    ELSE H_checkLines(resp.lines, h, c)

\* cluster.LocalRegionNodes(), as addresses.
H_LocalRegionNodes(h, c) ==
    SelectSeq(h[c].nodes, LAMBDA a : InLocalRegion(h[c], h[a]))

\* Lines 266-272: SetFail writes to the local-region nodes of the cluster.
H_Promote(h, c) ==
    [a \in DOMAIN h |->
        IF /\ a \in SeqSet(H_LocalRegionNodes(h, c))
           /\ h[a].pfailCount > Len(H_LocalRegionNodes(h, c)) \div 2
        THEN [h[a] EXCEPT !.fail = TRUE]
        ELSE h[a]]

\* cluster.BuildReplicaSets(), over addresses.
H_ReplicaSetsOf(h, addrs) ==
    LET masters == SelectSeq(addrs, LAMBDA a : IsMaster(h[a]))
    IN  [k \in 1..Len(masters) |->
            [master |-> masters[k],
             slaves |-> SelectSeq(addrs,
                 LAMBDA a : ~IsMaster(h[a]) /\ h[a].parent = h[masters[k]].id)]]

\* NewSpectator, lines 29-35: the caller's seed nodes are objects too.
HeapInit ==
    /\ \E l \in {q \in PassSeedLists : Len(q) <= MaxSeeds} :
          /\ Seeds = [k \in 1..Len(l) |-> k]
          /\ heap = [a \in HeapAddrs |-> IF a <= Len(l) THEN l[a] ELSE Free]
          /\ pub = [a \in 1..Len(l) |-> l[a]]
    /\ ClusterTopo = NilCluster
    /\ rw = [readers |-> 0, writer |-> "none"]
    /\ tickChan = 0
    /\ dropped = FALSE
    /\ bpc = "idle"
    /\ bi = 0
    /\ live = <<>>
    /\ bj = 0
    /\ cluster = NilCluster
    /\ berr = ""
    /\ preSeeds = <<>>
    /\ preTopo = NilCluster
    /\ agree = TRUE
    /\ calls = <<>>
    /\ rpc = "idle"
    /\ rrs = <<>>
    /\ rmap = <<>>
    /\ rsl = FALSE
    /\ rret = NoRet
    /\ FetchIdle
    /\ ParseIdle

\* Lines 241-245, one iteration.
H_IsAlive ==
    /\ bpc = "alive"
    /\ bi <= Len(Seeds)
    /\ \E alive \in BOOLEAN :
          live' = IF alive THEN Append(live, Seeds[bi]) ELSE live
    /\ bi' = bi + 1
    /\ UNCHANGED <<sharedVars, tickVars, bpc, bj, cluster, berr, preSeeds, preTopo,
                   agree, calls, readVars, fetchVars, auxVars>>

\* Lines 251-255.
H_Init ==
    /\ bpc = "init"
    /\ \E resp \in Replies :
          LET r == H_initClusterTopo(heap, resp)
          IN  IF r.err # ""
              THEN /\ Fail(r.err)
                   /\ heap' = Sweep(r.heap, RootsOf(Seeds, live, ClusterTopo, cluster))
                   /\ UNCHANGED <<cluster, bj>>
              ELSE /\ cluster' = r.cluster /\ bj' = 2 /\ bpc' = "check"
                   /\ heap' = r.heap
                   /\ UNCHANGED berr
    /\ UNCHANGED <<sharedVars, tickVars, bi, live, preSeeds, preTopo, agree, calls,
                   readVars, fetchVars, parseVars, pub>>

\* Lines 257-264, one iteration.
H_Check ==
    /\ bpc = "check"
    /\ bj <= Len(live)
    /\ \E resp \in Replies :
          LET r == H_checkClusterTopo(heap, resp, cluster.ref)
          IN  /\ heap' = r.heap
              /\ IF r.err # ""
                 THEN Fail(r.err) /\ UNCHANGED bj
                 ELSE bj' = bj + 1 /\ UNCHANGED <<bpc, berr>>
    /\ UNCHANGED <<sharedVars, tickVars, bi, live, cluster, preSeeds, preTopo, agree,
                   calls, readVars, fetchVars, parseVars, pub>>

\* Lines 266-272.
H_Promoted ==
    /\ bpc = "check"
    /\ bj > Len(live)
    /\ heap' = H_Promote(heap, cluster.ref)
    /\ bpc' = "derive"
    /\ UNCHANGED <<sharedVars, tickVars, bi, live, bj, cluster, berr, preSeeds,
                   preTopo, agree, calls, readVars, fetchVars, parseVars, pub>>

\* Line 274.
H_BuildReplicaSets ==
    /\ bpc = "derive"
    /\ heap' = [heap EXCEPT ![cluster.ref].replicaSets =
                   H_ReplicaSetsOf(heap, heap[cluster.ref].nodes)]
    /\ bpc' = "setseeds"
    /\ UNCHANGED <<sharedVars, tickVars, bi, live, bj, cluster, berr, preSeeds,
                   preTopo, agree, calls, readVars, fetchVars, parseVars, pub>>

\* Line 276.
H_SetSeeds ==
    /\ bpc = "setseeds"
    /\ Seeds' = H_LocalRegionNodes(heap, cluster.ref)
    /\ bpc' = "publish"
    /\ UNCHANGED <<ClusterTopo, rw, tickVars, bi, live, bj, cluster, berr,
                   preSeeds, preTopo, agree, calls, readVars, fetchVars, auxVars>>

\* Line 277.
H_Publish ==
    /\ bpc = "publish"
    /\ ClusterTopo' = cluster
    /\ berr' = ""
    /\ bpc' = "ret"
    /\ pub' = [a \in Reach(heap, SeqSet(Seeds) \cup RefsOf(cluster)) |-> heap[a]]
    /\ UNCHANGED <<Seeds, rw, tickVars, bi, live, bj, cluster, preSeeds, preTopo,
                   agree, calls, readVars, fetchVars, parseVars, heap>>

\* The return, and the deferred Unlock of line 234.  The locals die.
H_Return ==
    /\ bpc = "ret"
    /\ rw' = Unlock
    /\ bpc' = "idle"
    /\ bi' = 0
    /\ live' = <<>>
    /\ bj' = 0
    /\ cluster' = NilCluster
    /\ berr' = ""
    /\ preSeeds' = <<>>
    /\ preTopo' = NilCluster
    /\ LET ord == Order(heap, Seeds, ClusterTopo)
       IN  /\ heap' = Compact(heap, ord)
           /\ pub' = [a \in 1..Len(ord) |-> Moved(pub[ord[a]], ord)]
           /\ Seeds' = [k \in 1..Len(Seeds) |-> Pos(ord, Seeds[k])]
           /\ ClusterTopo' = IF ClusterTopo.nil THEN NilCluster
                             ELSE Ref(Pos(ord, ClusterTopo.ref))
    /\ UNCHANGED <<tickVars, agree, calls, readVars, fetchVars, parseVars>>

HeapNext ==
    \/ B_Call
    \/ B_Lock
    \/ B_Locked
    \/ B_NoSeeds
    \/ H_IsAlive
    \/ B_NoLive
    \/ H_Init
    \/ H_Check
    \/ H_Promoted
    \/ H_BuildReplicaSets
    \/ H_SetSeeds
    \/ H_Publish
    \/ H_Return

SpecHeap == HeapInit /\ [][HeapNext]_vars

\* ---------------------------------------------------- buildNode, on its own
\* One call of buildNode on one status line: a line of the fields of a
\* status line, whole or cut short, with up to MaxTokens slot tokens.

ModR    == <<"r">>
ModNone == <<"-", "-">>

TagOne  == <<"b", "j">>
TagFour == <<"b", "j", ":", "z", ":", "r", ":", "x">>

\* Slot tokens: ranges, a single slot, a range without its end, and the
\* marker of a slot in migration.
Tokens ==
    { <<"5", "-", "9">>, <<"1", "0", "-", "2", "0">>, <<"0", "-", "4">>,
      <<"7">>, <<"5", "-">>, <<"[", "7", "-", ">", "-", "n", "]">> }

TokenLists == UNION {[1..n -> Tokens] : n \in 0..MaxTokens}

WholeLines ==
    {Line(mod, tag, "n1", "a1", {"master"}, "-", slots) :
        mod \in {ModRW, ModR, ModNone},
        tag \in {TagBJ, TagBad, TagOne, TagFour, <<>>},
        slots \in TokenLists}

\* The lines with no slot token, and what is left of them after the tag,
\* after the parent id, and one field short of the slot tokens.
CutLines ==
    {SubSeq(l, 1, n) : l \in {w \in WholeLines : Len(w) = SlotField},
                       n \in {2, 6, SlotField - 1, SlotField}}

ParseLines == WholeLines \cup CutLines

ParseInit ==
    /\ Seeds = <<>>
    /\ ClusterTopo = NilCluster
    /\ rw = [readers |-> 0, writer |-> "none"]
    /\ tickChan = 0
    /\ dropped = FALSE
    /\ bpc = "idle"
    /\ bi = 0
    /\ live = <<>>
    /\ bj = 0
    /\ cluster = NilCluster
    /\ berr = ""
    /\ preSeeds = <<>>
    /\ preTopo = NilCluster
    /\ agree = TRUE
    /\ calls = <<>>
    /\ rpc = "idle"
    /\ rrs = <<>>
    /\ rmap = <<>>
    /\ rsl = FALSE
    /\ rret = NoRet
    /\ FetchIdle
    /\ pline \in ParseLines
    /\ pout = <<>>
    /\ HeapIdle

\* Lines 123-170.
P_BuildNode ==
    /\ pout = <<>>
    /\ pline # <<>>
    /\ pout' = <<buildNode(pline)>>
    /\ UNCHANGED <<sharedVars, tickVars, passVars, readVars, fetchVars, pline,
                   heapVars>>

ParseNext == P_BuildNode

SpecParse == ParseInit /\ [][ParseNext]_vars

\* ----------------------------------------------------------------- claims

\* Positions of BuildClusterTopo between Lock returning and Unlock.
InExclusive == bpc \in {"seeds", "alive", "init", "check", "derive", "setseeds",
                        "publish", "ret"}

\* Positions of a read query between its first RLock and its last RUnlock.
InShared == rpc \in {"find", "rlock2", "fetch", "scan", "ret", "dfetch"}

\* C1: a pass that returns an error returns with the seed list and the
\* published snapshot exactly as they were when it took the lock.
C1_ErrorLeavesStateUnchanged ==
    (bpc = "ret" /\ berr # "") => (Seeds = preSeeds /\ ClusterTopo = preTopo)

\* A pass fails on a topology mismatch while a snapshot is published.
C1_Witness ==
    /\ bpc = "ret"
    /\ berr = "ErrNodesInfoNotSame"
    /\ ~preTopo.nil
    /\ Len(preSeeds) > 0

\* The snapshot is whole: its replica sets are those of its nodes, and its
\* failure flags are those the counters and the local region give.
Complete(c) ==
    /\ ~c.nil
    /\ c.replicaSets = ReplicaSetsOf(c.nodes)
    /\ \A k \in 1..Len(c.nodes) :
          c.nodes[k].fail =
             (/\ c.nodes[k].region = c.localRegion
              /\ c.nodes[k].pfailCount > Len(LocalRegionNodes(c)) \div 2)

\* C2: no reader is in its read-locked section while a pass is in its
\* exclusive section, and the snapshot ClusterTopo holds, which is the one a
\* reader in its section sees, is whole and is not being published.
C2_ReadersSeeWholeSnapshot ==
    /\ ~(InShared /\ InExclusive)
    /\ ~(rw.readers > 0 /\ rw.writer = "held")
    /\ InShared => (Complete(ClusterTopo) /\ rw.readers > 0)
    /\ InExclusive => rw.writer = "held"
    /\ ~ClusterTopo.nil => Complete(ClusterTopo)

\* A reader is at work on the published snapshot while a pass waits for the
\* lock.
C2_Witness ==
    /\ rpc = "scan"
    /\ bpc = "locking"
    /\ Len(ClusterTopo.nodes) > 1

\* C3: no reader that holds the shared lock is blocked taking it again
\* behind a pending exclusive request.
C3_NoReaderBlockedBehindWriter ==
    ~(rpc = "rlock2" /\ rw.readers > 0 /\ rw.writer = "pending")

\* C4: in the published snapshot a node is a confirmed failure exactly if it
\* is in the local region and its evidence count exceeds half the number of
\* local-region nodes, rounded down.
C4_FailIffLocalQuorum ==
    ~ClusterTopo.nil =>
        \A k \in 1..Len(ClusterTopo.nodes) :
           LET n == ClusterTopo.nodes[k]
               N == Cardinality({m \in 1..Len(ClusterTopo.nodes) :
                       ClusterTopo.nodes[m].region = LocalRegion})
           IN  n.fail <=> (n.region = LocalRegion /\ n.pfailCount > N \div 2)

\* A published snapshot with a promoted local node and a node of another
\* region that has as much evidence and is not promoted.
C4_Witness ==
    /\ ~ClusterTopo.nil
    /\ \E k, m \in 1..Len(ClusterTopo.nodes) :
          /\ ClusterTopo.nodes[k].fail
          /\ ClusterTopo.nodes[m].region # LocalRegion
          /\ ClusterTopo.nodes[m].pfailCount >= ClusterTopo.nodes[k].pfailCount
          /\ ~ClusterTopo.nodes[m].fail

\* The candidates of the scan: all members of rs, or with slaveOnly all but
\* its master.
Candidates == {id \in DOMAIN rmap : ~(rsl /\ id = rrs.master.id)}

Returned == rpc = "ret" /\ rret.err = ""

IsBest(id) ==
    /\ id \in MemberIds(rrs)
    /\ id \in Candidates
    /\ \A c \in Candidates : rmap[id] >= rmap[c]

\* C5 as stated: for a known node id MaxReploffSlibing returns a candidate
\* of the greatest probed offset.
C5_ReturnsBestCandidate == Returned => IsBest(rret.id)

\* C5, amended: it does so whenever some candidate's probe returned an offset
\* (0 or more); with slaveOnly the id returned is then no master.
C5_ReturnsBestReachableCandidate ==
    (Returned /\ \E c \in Candidates : rmap[c] >= 0) =>
        /\ IsBest(rret.id)
        /\ rsl => ~IsMaster(ClusterTopo.nodes[FindIndex(ClusterTopo, rret.id)])

\* With slaveOnly, a slave is returned although the master is further ahead
\* and another slave is unreachable.
C5_Witness ==
    /\ Returned
    /\ rsl
    /\ Cardinality(DOMAIN rmap) = 3
    /\ rret.id # ""
    /\ rmap[rrs.master.id] > rmap[rret.id]
    /\ \E c \in Candidates : rmap[c] = Sentinel

\* C6: MaxReploffSlibing returns the empty id without an error exactly if no
\* candidate's probe returned an offset; otherwise it returns a member.
C6_EmptyIffAllSentinel ==
    Returned =>
        /\ (rret.id = "") <=> (\A c \in Candidates : rmap[c] = Sentinel)
        /\ (\E c \in Candidates : rmap[c] >= 0) => rret.id \in MemberIds(rrs)

\* A member whose probed offset is 0 is returned, the others being
\* unreachable.
C6_Witness ==
    /\ Returned
    /\ rret.id # ""
    /\ rmap[rret.id] = 0
    /\ Cardinality(Candidates) > 1
    /\ \A c \in Candidates \ {rret.id} : rmap[c] = Sentinel

\* C7: one probe per member; no probe ever finds the channel full; the call
\* returns after every probe has deposited, with one entry per member id whose
\* value is what that member's probe returned.
C7_OneEntryPerMember ==
    /\ Len(fwork) <= Len(fnodes)
    /\ \A w \in 1..Len(fwork) :
          /\ fwork[w].id = fnodes[w].id
          /\ fwork[w].st = "send" => Len(fchan) < Len(fnodes)
    /\ fpc = "done" =>
          /\ Len(fwork) = Len(fnodes)
          /\ \A w \in 1..Len(fwork) : fwork[w].st = "done"
          /\ fchan = <<>>
          /\ DOMAIN fresult = {fnodes[k].id : k \in 1..Len(fnodes)}
          /\ \A w \in 1..Len(fwork) : fresult[fwork[w].id] = fwork[w].off

\* The call has returned for three members, of which some probes failed and
\* some did not.
C7_Witness ==
    /\ fpc = "done"
    /\ Len(fnodes) = 3
    /\ \E a, b \in DOMAIN fresult : fresult[a] = Sentinel /\ fresult[b] > 0

\* C8: once a snapshot is published the seed list is the list of its
\* local-region nodes, but for the moment between the two assignments of a
\* pass, which lies in the exclusive section with no reader inside.
C8_SeedsAreLocalRegionNodes ==
    ~ClusterTopo.nil =>
        \/ Seeds = LocalRegionNodes(ClusterTopo)
        \/ bpc = "publish" /\ rw.writer = "held" /\ rw.readers = 0 /\ ~InShared

\* A successful pass returns with a snapshot that has nodes in and out of
\* the local region.
C8_Witness ==
    /\ bpc = "ret"
    /\ berr = ""
    /\ Len(Seeds) > 0
    /\ Len(Seeds) < Len(ClusterTopo.nodes)

\* C9: at most one tick is pending, a tick that finds one pending is dropped,
\* and Run waits for a tick only when the pass before has returned and
\* released the lock.
C9_TicksCoalesced ==
    /\ tickChan \in 0..TickCap
    /\ dropped => tickChan = TickCap
    /\ bpc \in {"idle", "lock"} => rw.writer = "none"

\* A pass overruns the interval: one tick is pending and one was dropped.
C9_Witness ==
    /\ InExclusive
    /\ tickChan = TickCap
    /\ dropped

\* C10: a pass succeeds only if every cross-checked reply names the same ids
\* as the first reply with equal authoritative fields.
C10_SuccessOnlyIfViewsAgree ==
    (bpc = "ret" /\ berr = "") => agree


\* The membership fetches and the liveness probes of the pass, in call order.
Fetches == SelectSeq(calls, LAMBDA c : c.op = "ClusterNodes")
Probes  == SelectSeq(calls, LAMBDA c : c.op = "IsAlive")

\* The number of accepted replies of the pass that mark id as suspected.
MarkCount(id) == Cardinality({k \in 1..Len(Fetches) : id \in Fetches[k].marked})

\* C11: a pass that succeeds has fetched every live seed, and each node of
\* the snapshot it publishes carries as suspectedFailureCount the number of
\* those seeds, the first included, whose reply marks the node "fail?": at
\* most the number of live seeds, and nothing from earlier passes.  A
\* cross-check fails only on a view that differs from the first seed's in
\* more than the markers.
C11_CountsThisPassEvidence ==
    /\ (bpc = "ret" /\ berr = "") =>
          /\ Len(Fetches) = Len(live)
          /\ \A k \in 1..Len(ClusterTopo.nodes) :
                LET n == ClusterTopo.nodes[k]
                IN  /\ n.pfailCount = MarkCount(n.id)
                    /\ n.pfailCount <= Len(live)
    /\ (bpc = "ret" /\ berr # "" /\ Len(Fetches) > 1) =>
          ~Fetches[Len(Fetches)].same

\* A pass of two live seeds publishes a node both mark, and a node only the
\* second marks that the previous snapshot held with evidence of its own.
C11_Witness ==
    /\ bpc = "ret" /\ berr = "" /\ Len(live) = 2
    /\ ~preTopo.nil
    /\ \E k \in 1..Len(ClusterTopo.nodes) :
          ClusterTopo.nodes[k].pfailCount = 2
    /\ \E k \in 1..Len(ClusterTopo.nodes) :
          /\ ClusterTopo.nodes[k].pfailCount = 1
          /\ ~ClusterTopo.nodes[k].pfail
          /\ \E m \in 1..Len(preTopo.nodes) :
                /\ preTopo.nodes[m].id = ClusterTopo.nodes[k].id
                /\ preTopo.nodes[m].pfailCount = 2



\* The addresses of a sequence of seeds or of calls.
AddrsOf(seq) == [k \in 1..Len(seq) |-> seq[k].addr]

\* The pass holds the lock and has not returned.
InPass == bpc \notin {"idle", "lock", "locking"}

\* C15: in a pass every liveness probe precedes every membership fetch; the
\* seeds are probed in seed-list order and the live list is those that
\* answered, in that order; the k-th fetch goes to the k-th live seed, the
\* first building the cluster; only the last fetch made can be a failed one,
\* and after a failed one the pass is returning its error with nothing
\* promoted, derived or published.
C15_ProbesThenFetchesInOrder ==
    InPass =>
      /\ calls = Probes \o Fetches
      /\ AddrsOf(Probes) = AddrsOf(SubSeq(preSeeds, 1, Len(Probes)))
      /\ AddrsOf(live) = AddrsOf(SelectSeq(Probes, LAMBDA c : c.ok))
      /\ Len(Fetches) > 0 => Len(Probes) = Len(preSeeds)
      /\ Len(Fetches) <= Len(live)
      /\ AddrsOf(Fetches) = AddrsOf(SubSeq(live, 1, Len(Fetches)))
      /\ \A k \in 1..Len(Fetches) :
            ~Fetches[k].ok =>
               /\ k = Len(Fetches)
               /\ bpc = "ret" /\ berr # ""
               /\ Seeds = preSeeds /\ ClusterTopo = preTopo
               /\ cluster.nil \/
                     /\ cluster.replicaSets = <<>>
                     /\ \A m \in 1..Len(cluster.nodes) : ~cluster.nodes[m].fail

\* Three seeds are alive, the second seed's reply fails the cross-check, and
\* the pass returns without asking the third.
C15_Witness ==
    /\ bpc = "ret" /\ berr = "ErrNodesInfoNotSame"
    /\ Len(live) = 3 /\ Len(Fetches) = 2
    /\ live[1].addr # live[2].addr /\ live[2].addr # live[3].addr



\* C16: a pass returns ErrNoSeed exactly when the seed list it found was
\* empty or every seed of it was probed and none answered; on an empty list
\* it made no network call, and a pass returning ErrNoSeed made no
\* membership fetch.
C16_NoSeedIffNoneAlive ==
    bpc = "ret" =>
      /\ berr = "ErrNoSeed" <=>
            \/ Len(preSeeds) = 0
            \/ /\ Len(Probes) = Len(preSeeds)
               /\ \A k \in 1..Len(Probes) : ~Probes[k].ok
      /\ Len(preSeeds) = 0 => calls = <<>>
      /\ berr = "ErrNoSeed" => Fetches = <<>>

\* With a snapshot published, both seeds are probed, neither answers, and
\* the pass returns ErrNoSeed.
C16_Witness ==
    /\ bpc = "ret" /\ berr = "ErrNoSeed"
    /\ ~ClusterTopo.nil
    /\ Len(preSeeds) = 2 /\ Len(Probes) = 2

\* The addresses of the seeds whose accepted reply marks id as suspected.
Observers(id) ==
    {Fetches[k].addr : k \in {m \in 1..Len(Fetches) : id \in Fetches[m].marked}}

\* The addresses of the local-region nodes of a cluster.
LocalAddrs(c) ==
    {LocalRegionNodes(c)[k].addr : k \in 1..Len(LocalRegionNodes(c))}

\* C17: a node of a published snapshot is marked as failed only if the
\* distinct local-region seeds that marked it "fail?" in the pass are more
\* than half of the snapshot's local-region nodes.
C17_FailOnlyByLocalMajority ==
    (bpc = "ret" /\ berr = "") =>
       \A k \in 1..Len(ClusterTopo.nodes) :
          ClusterTopo.nodes[k].fail =>
             2 * Cardinality(Observers(ClusterTopo.nodes[k].id)
                               \cap LocalAddrs(ClusterTopo))
                > NumLocalRegionNode(ClusterTopo)

\* C19: no step turns a non-empty seed list into an empty one.
C19_SeedsStayNonEmpty == [][Len(Seeds) > 0 => Len(Seeds') > 0]_vars

\* C20: from the resolution of the replica set to the return of the query,
\* the replica set is one of the published snapshot, every id of the offset
\* map is the id of a node of that snapshot, and the scan dereferences no
\* absent node; a query that returns ErrNodeNotExist has resolved no replica
\* set and fetched no offset.
C20_QueryUsesOneSnapshot ==
    /\ rpc \in {"rlock2", "fetch", "scan"} =>
          \E k \in 1..Len(ClusterTopo.replicaSets) : ClusterTopo.replicaSets[k] = rrs
    /\ rpc = "scan" =>
          /\ DOMAIN rmap = MemberIds(rrs)
          /\ \A id \in DOMAIN rmap : FindIndex(ClusterTopo, id) # 0
    /\ rpc = "ret" =>
          /\ rret.err # "panic"
          /\ rret.err = "ErrNodeNotExist" => (rrs = <<>> /\ rmap = <<>>)

\* A query has fetched the offsets of a replica set of two members and is
\* about to scan them while a pass waits for the lock.
C20_Witness ==
    /\ rpc = "scan"
    /\ Cardinality(DOMAIN rmap) = 2
    /\ bpc = "locking"



\* C12: buildNode returns ErrInvalidTag for every line whose tag does not
\* split into exactly three parts at the colons, whatever its other fields
\* and however many fields it has.
C12_BadTagIsInvalidTag ==
    (pout # <<>> /\ Len(Split(pline[2], ":")) # TagParts) =>
       pout[1].err = "ErrInvalidTag"

\* C18: the slot ranges of the node buildNode returns are in ascending
\* order of their start.
C18_RangesAscendByStart ==
    (pout # <<>> /\ pout[1].err = "") =>
       \A i, j \in 1..Len(pout[1].node.ranges) :
          i < j => pout[1].node.ranges[i][1] <= pout[1].node.ranges[j][1]



\* The objects published, and still referred to by ClusterTopo or Seeds.
Published ==
    LET roots == (RefsOf(ClusterTopo) \cup SeqSet(Seeds)) \cap DOMAIN pub
    IN  roots \cup
        UNION {SeqSet(pub[c].nodes) : c \in {r \in roots : IsCluster(pub[r])}}

\* C13: the cluster ClusterTopo refers to, its nodes and the nodes of the
\* seed list are, at every step of every later pass, the objects they were
\* when they were published (or handed to NewSpectator): same node list,
\* same fields, counters and flags.
C13_PublishedStaysAsPublished ==
    \A a \in Published : heap[a] = pub[a]

\* A later pass has promoted a node of the cluster it is building, and the
\* published snapshot holds a node of the same id with no evidence at all.
C13_Witness ==
    /\ bpc = "derive"
    /\ ~ClusterTopo.nil
    /\ \E a \in SeqSet(heap[cluster.ref].nodes) :
          /\ heap[a].fail
          /\ \E b \in SeqSet(heap[ClusterTopo.ref].nodes) :
                /\ heap[b].id = heap[a].id
                /\ ~heap[b].fail /\ heap[b].pfailCount = 0



\* C14: Run calls BuildClusterTopo again and again, for ever, whatever the
\* passes return and whatever queries are under way.
C14_PassesAttemptedForEver == []<>(bpc = "lock")


=============================================================================
